---- MODULE Spec2Model ----
(***************************************************************************)
(* Model of heat_sink_pic.py: the CustomValidatorPlotter pipeline          *)
(* (__call__, heat_sink_mask, interpolate_output) and the fin geometry     *)
(* that run() builds.                                                      *)
(*                                                                         *)
(* Coordinates are fixed-point: Scale ticks per unit of length, so that    *)
(* -0.3, 0.1, 0.15 and every linspace node are integers.  Field values are *)
(* tagged pairs <<kind, n>> (finite, nan, inf, max) so that numpy's        *)
(* treatment of the IEEE specials is modelled, not assumed away.           *)
(***************************************************************************)
EXTENDS Integers, Sequences, FiniteSets, TLC

\* ------------------------------------------------------------------ bounds
\* nodes per axis of the interpolation grid (np.linspace(..., 100) in the code)
GridRes == 3
\* largest hypothetical nr_fins the monotonicity claim is explored for
MaxFins == 4
\* invocations of the plotter in one behaviour
MaxCalls == 2

\* ticks per unit length; a multiple of 20 (0.05 is a tick multiple) and of
\* GridRes - 1 (every linspace node of a 0.05-aligned extent is a tick)
Scale == 20 * (GridRes - 1)

VARIABLES
    \* --- geometry: one evaluation of heat_sink_mask and of run()'s fin loop
    xi, yi,          \* coordinate arrays handed to heat_sink_mask
    fins,            \* hypothetical nr_fins, for the monotonicity claim
    mask,            \* result of heat_sink_mask(xi, yi); <<>> before the call
    maskN, maskN1,   \* the same loop run for fins and fins + 1 fins
    rpc,             \* position in run(): "start", "loop", "done"
    heat_sink_origin,\* run()'s heat_sink_origin (rebound in the loop)
    heat_sink,       \* rectangles unioned into run()'s heat_sink, in order
    i,               \* run()'s loop variable
    \* --- plotter: the caller's mappings and one __call__ at a time
    invar, true_outvar, pred_outvar,
    pc,              \* "idle", "called", "extracted", "interpolated", "diffed",
                     \* "plotted", "returned", "raised"
    calls,           \* completed or started invocations
    x, y, extent,    \* locals of __call__
    true_f, pred_f,  \* the five reference / predicted fields (1-D, then grid)
    raw,             \* what griddata returned, before nan_to_num and masking
    grid_mask,       \* the mask interpolate_output derived from the grid
    diff,            \* p_diff .. c_diff
    figures,         \* figures created by plt.subplots so far
    panels,          \* the axes of the current figure, in axes.flat order
    result,          \* the list __call__ returned
    error,           \* the exception that ended the call, "" if none
    snap,            \* the three mappings as they were when the call began
    prev             \* mask and fields of the previous completed call

geoVars == <<xi, yi, fins, mask, maskN, maskN1, rpc, heat_sink_origin, heat_sink, i>>
callVars == <<invar, true_outvar, pred_outvar, pc, calls, x, y, extent, true_f,
              pred_f, raw, grid_mask, diff, figures, panels,
              result, error, snap, prev>>
vars == <<geoVars, callVars>>

\* =================================================================== mask
\* heat_sink_mask's locals (lines 146-151), in ticks
heat_sink_x == -1 * Scale
heat_sink_y_start == -((3 * Scale) \div 10)
fin_thickness == Scale \div 10
nr_fins == 3
\* a spacing that forgets the fin's own thickness (0.15 instead of 0.15 + 0.1)
gapWithoutThickness == (15 * Scale) \div 100
gap == (15 * Scale) \div 100 + Scale \div 10
length == Scale

\* line 154
fin_y(j) == heat_sink_y_start + j * gap

\* the closed rectangle fin j covers (lines 154-156)
FinRect(j) ==
    [x0 |-> heat_sink_x, y0 |-> fin_y(j),
     x1 |-> heat_sink_x + length, y1 |-> fin_y(j) + fin_thickness]

\* the test with the upper bounds exclusive
InFinHalfOpen(xs, ys, j) ==
    [k \in DOMAIN xs |->
        /\ xs[k] >= FinRect(j).x0 /\ xs[k] < FinRect(j).x1
        /\ ys[k] >= FinRect(j).y0 /\ ys[k] < FinRect(j).y1]

\* the elementwise test of lines 155-156
InFin(xs, ys, j) ==
    [k \in DOMAIN xs |->
        /\ xs[k] >= FinRect(j).x0 /\ xs[k] <= FinRect(j).x1
        /\ ys[k] >= FinRect(j).y0 /\ ys[k] <= FinRect(j).y1]

\* "mask = ..." in place of "mask |= ..."
MaskAssign(m, r) == r

\* mask |= r (line 155)
MaskOr(m, r) == [k \in DOMAIN m |-> m[k] \/ r[k]]

\* the loop of lines 153-156 from iteration j on, for n fins
RECURSIVE MaskLoop(_, _, _, _, _)
MaskLoop(xs, ys, j, n, m) ==
    IF j >= n THEN m
    ELSE MaskLoop(xs, ys, j + 1, n, MaskOr(m, InFin(xs, ys, j)))

\* heat_sink_mask with nr_fins = n: zeros_like (line 144), then the loop
MaskFins(xs, ys, n) == MaskLoop(xs, ys, 0, n, [k \in DOMAIN xs |-> FALSE])

heat_sink_mask(xs, ys) == MaskFins(xs, ys, nr_fins)

\* ================================================================== run()
\* run()'s own copies of the fin parameters (lines 188-192), in ticks
run_origin == <<-1 * Scale, -((3 * Scale) \div 10)>>
nr_heat_sink_fins == 3
\* run()'s spacing, had it drifted from the mask's (0.15 + 0.15)
run_gap_drifted == (15 * Scale) \div 100 + (15 * Scale) \div 100
run_gap == (15 * Scale) \div 100 + Scale \div 10
heat_sink_length == Scale
heat_sink_fin_thickness == Scale \div 10

\* Rectangle(origin, (origin[0] + length, origin[1] + thickness)), lines 206-221
Rectangle(o) ==
    [x0 |-> o[1], y0 |-> o[2],
     x1 |-> o[1] + heat_sink_length, y1 |-> o[2] + heat_sink_fin_thickness]


\* ================================================================ values
\* a float: <<"fin", n>>, <<"nan", 0>>, <<"inf", s>> or <<"max", s>> (the
\* largest finite float, with sign s)
Fin(n) == <<"fin", n>>
NaN == <<"nan", 0>>
Inf(s) == <<"inf", s>>
FMax(s) == <<"max", s>>
IsFin(v) == v[1] = "fin"
IsNaN(v) == v[1] = "nan"
IsInf(v) == v[1] = "inf"
IsMax(v) == v[1] = "max"

\* 273.15 in twentieths: the scaled c fields are carried in twentieths
TempScale == 5463

\* v * 273.15 (lines 66, 73)
TimesTempScale(v) ==
    CASE IsFin(v) -> Fin(v[2] * TempScale)
      [] IsMax(v) -> Inf(v[2])
      [] OTHER -> v

\* a - b in IEEE arithmetic (lines 85-89): nan is absorbing, inf - inf is nan,
\* a modest finite operand is absorbed by the largest float, and
\* max - (-max) overflows
FloatSub(a, b) ==
    CASE IsNaN(a) \/ IsNaN(b) -> NaN
      [] IsFin(a) /\ IsFin(b) -> Fin(a[2] - b[2])
      [] IsFin(b) -> IF IsInf(a) THEN Inf(a[2]) ELSE FMax(a[2])
      [] IsFin(a) -> IF IsInf(b) THEN Inf(-b[2]) ELSE FMax(-b[2])
      [] IsInf(a) /\ IsInf(b) -> IF a[2] = b[2] THEN NaN ELSE Inf(a[2])
      [] IsInf(a) -> Inf(a[2])
      [] IsInf(b) -> Inf(-b[2])
      [] OTHER -> IF a[2] = b[2] THEN Fin(0) ELSE Inf(a[2])

\* ================================================================ arrays
MinOf(S) == CHOOSE m \in S : \A e \in S : m <= e
MaxOf(S) == CHOOSE m \in S : \A e \in S : m >= e
Range(a) == {a[k] : k \in DOMAIN a}

\* a[:, 0] of an N x 1 array
Column0(a) == [k \in DOMAIN a |-> a[k][1]]

\* a.T of a 2-D array indexed by <<row, column>>
Transpose(g) == [c \in {<<e[2], e[1]>> : e \in DOMAIN g} |-> g[<<c[2], c[1]>>]]

\* np.linspace(lo, hi, GridRes), nodes 0 .. GridRes - 1 (lines 164-165)
linspace(lo, hi) == [n \in 0 .. (GridRes - 1) |-> lo + (n * (hi - lo)) \div (GridRes - 1)]

GridIdx == (0 .. (GridRes - 1)) \X (0 .. (GridRes - 1))

\* np.meshgrid(..., indexing="ij") (lines 163-167): xi[a, b] = xs[a], yi[a, b] = ys[b]
meshgrid_xi(ext) == [c \in GridIdx |-> linspace(ext[1], ext[2])[c[1]]]
meshgrid_yi(ext) == [c \in GridIdx |-> linspace(ext[3], ext[4])[c[2]]]

\* ============================================================== griddata
\* scipy.interpolate.griddata(..., method='linear') for three scattered points:
\* the triangulation is the one triangle, a cell inside it gets the
\* barycentric combination of the three values, a cell outside it the fill
\* value nan; three collinear points have no triangulation (QhullError).
Det(px, py) ==
    (px[2] - px[1]) * (py[3] - py[1]) - (px[3] - px[1]) * (py[2] - py[1])

Sign(n) == IF n < 0 THEN -1 ELSE 1

\* the three barycentric numerators of point (cx, cy), over the denominator |Det|
Bary(px, py, cx, cy) ==
    LET s == Sign(Det(px, py)) IN
    << s * ((px[2] - cx) * (py[3] - cy) - (px[3] - cx) * (py[2] - cy)),
       s * ((px[3] - cx) * (py[1] - cy) - (px[1] - cx) * (py[3] - cy)),
       s * ((px[1] - cx) * (py[2] - cy) - (px[2] - cx) * (py[1] - cy)) >>

RECURSIVE GCD(_, _)
GCD(a, b) == IF b = 0 THEN a ELSE GCD(b, a % b)

\* sum of c[j] * values[j] over the three vertices, in IEEE arithmetic:
\* 0 * inf and inf - inf are nan.  The weights w[j] / d are taken in lowest
\* terms (the w[j] are non-negative here and add up to d).
Combine(w, d, value) ==
    LET g == GCD(GCD(w[1], w[2]), w[3]) IN
    LET infs == {value[k][2] : k \in {n \in 1 .. 3 : IsInf(value[n]) /\ w[n] # 0}} IN
    IF \E k \in 1 .. 3 : IsNaN(value[k]) \/ (IsInf(value[k]) /\ w[k] = 0) THEN NaN
    ELSE IF infs = {1, -1} THEN NaN
    ELSE IF infs # {} THEN Inf(CHOOSE s \in infs : TRUE)
    ELSE Fin(((w[1] \div g) * value[1][2] + (w[2] \div g) * value[2][2]
                + (w[3] \div g) * value[3][2]) \div (d \div g))

Collinear(px, py) == Det(px, py) = 0

griddata(px, py, value, gx, gy) ==
    LET d == Det(px, py) * Sign(Det(px, py)) IN
    [c \in DOMAIN gx |->
        LET w == Bary(px, py, gx[c], gy[c]) IN
        IF w[1] >= 0 /\ w[2] >= 0 /\ w[3] >= 0
        THEN Combine(w, d, value)
        ELSE NaN]

\* np.nan_to_num(val, nan=np.nan) (line 175): nan stays nan, and the infinities
\* become the largest finite floats (posinf and neginf keep their defaults)
nan_to_num(g) ==
    [c \in DOMAIN g |-> IF IsInf(g[c]) THEN FMax(g[c][2]) ELSE g[c]]

\* the masking applied to the fields of one mapping only
ApplyMaskSkippingHalf(gs, m) ==
    [n \in DOMAIN gs |->
        IF 2 * n > Len(gs) THEN gs[n]
        ELSE [c \in DOMAIN gs[n] |-> IF m[c] THEN NaN ELSE gs[n][c]]]

\* interpolated_values[i][mask] = np.nan, for every i (lines 177-178)
ApplyMask(gs, m) ==
    [n \in DOMAIN gs |-> [c \in DOMAIN gs[n] |-> IF m[c] THEN NaN ELSE gs[n][c]]]

\* lines 171-173: one griddata per value array
Interpolated(px, py, values, ext) ==
    [n \in DOMAIN values |->
        griddata(px, py, values[n], meshgrid_xi(ext), meshgrid_yi(ext))]

\* what interpolate_output returns (lines 161-180)
interpolate_output(px, py, values, ext) ==
    LET m == heat_sink_mask(meshgrid_xi(ext), meshgrid_yi(ext)) IN
    ApplyMask([n \in DOMAIN values |-> nan_to_num(Interpolated(px, py, values, ext)[n])], m)

\* ============================================================== __call__
Quantities == <<"p", "u", "v", "nu", "c">>
OutKeys == Range(Quantities)
InKeys == {"x", "y"}

\* the lookups of lines 57-74 that find no key, as <<mapping, key>>, when only
\* the coordinates are looked up before the figure is made
MissingKeysCoordinatesOnly ==
    {<<"invar", k>> : k \in InKeys \ DOMAIN invar}

\* the lookups of lines 57-74 that find no key, as <<mapping, key>>
MissingKeys ==
    {<<"invar", k>> : k \in InKeys \ DOMAIN invar}
        \cup {<<"true_outvar", k>> : k \in OutKeys \ DOMAIN true_outvar}
        \cup {<<"pred_outvar", k>> : k \in OutKeys \ DOMAIN pred_outvar}

\* the column of every field, c scaled by 273.15 into a new array
Extracted(m) ==
    [q \in DOMAIN m \cap OutKeys |->
        IF q = "c" THEN [k \in DOMAIN m[q] |-> TimesTempScale(m[q][k][1])]
        ELSE Column0(m[q])]

\* the mapping after "m["c"][:, 0] *= 273.15", a scaling in place
ScaledInPlace(m) ==
    [q \in DOMAIN m |->
        IF q = "c" THEN [k \in DOMAIN m[q] |-> <<TimesTempScale(m[q][k][1])>>]
        ELSE m[q]]

\* lines 61-67 with the scaling done in place
ExtractTrueInPlace(m) == [store |-> ScaledInPlace(m), vals |-> Extracted(m)]

\* lines 61-67: the reference fields; true_outvar itself is left as it was
ExtractTrue(m) == [store |-> m, vals |-> Extracted(m)]

\* lines 68-74 with the scaling done in place
ExtractPredInPlace(m) == [store |-> ScaledInPlace(m), vals |-> Extracted(m)]

\* lines 68-74: the predicted fields; pred_outvar itself is left as it was
ExtractPred(m) == [store |-> m, vals |-> Extracted(m)]

\* the list handed to interpolate_output (line 81): reference fields, then
\* predicted fields, each in the order p, u, v, nu, c
ValuesList(t, pr) ==
    [n \in 1 .. 10 |-> IF n <= 5 THEN t[Quantities[n]] ELSE pr[Quantities[n - 5]]]

\* the unpacking of lines 77-80
UnpackTrue(gs) == [q \in OutKeys |-> gs[CHOOSE n \in 1 .. 5 : Quantities[n] = q]]
UnpackPred(gs) == [q \in OutKeys |-> gs[5 + (CHOOSE n \in 1 .. 5 : Quantities[n] = q)]]

\* lines 85-89 the other way round
DiffsPredMinusTrue(t, pr) ==
    [q \in OutKeys |-> [c \in DOMAIN t[q] |-> FloatSub(pr[q][c], t[q][c])]]

\* lines 85-89
Diffs(t, pr) ==
    [q \in OutKeys |-> [c \in DOMAIN t[q] |-> FloatSub(t[q][c], pr[q][c])]]

\* lines 92-98, in hundredths
colorbar_limits ==
    [q \in OutKeys |->
        CASE q = "p" -> <<-100, 900>>
          [] q = "u" -> <<0, 220>>
          [] q = "v" -> <<-120, 120>>
          [] q = "nu" -> <<1, 4>>
          [] OTHER -> <<0, 5500>>]

\* lines 105-111
titles ==
    << "Modulus: p", "OpenFOAM: p", "Difference: p",
       "Modulus: u", "OpenFOAM: u", "Difference: u",
       "Modulus: v", "OpenFOAM: v", "Difference: v",
       "Modulus: nu", "OpenFOAM: nu", "Difference: nu",
       "Modulus: c", "OpenFOAM: c", "Difference: c" >>

\* the data list with the first two columns exchanged
dataTrueFirst(t, pr, d) ==
    << t["p"], pr["p"], d["p"],
       t["u"], pr["u"], d["u"],
       t["v"], pr["v"], d["v"],
       t["nu"], pr["nu"], d["nu"],
       t["c"], pr["c"], d["c"] >>

\* lines 112-118
data(t, pr, d) ==
    << pr["p"], t["p"], d["p"],
       pr["u"], t["u"], d["u"],
       pr["v"], t["v"], d["v"],
       pr["nu"], t["nu"], d["nu"],
       pr["c"], t["c"], d["c"] >>

\* line 119
variables ==
    << "p", "p", "None", "u", "u", "None", "v", "v", "None",
       "nu", "nu", "None", "c", "c", "None" >>

\* lines 123-134: what each axes of axes.flat is given; lim = <<>> is imshow
\* without vmin and vmax
Axes(t, pr, d) ==
    [n \in 1 .. 15 |->
        [title |-> titles[n],
         img |-> Transpose(data(t, pr, d)[n]),
         ext |-> extent,
         lim |-> IF variables[n] # "None" THEN colorbar_limits[variables[n]] ELSE <<>>]]

\* ======================================================== geometry spec
\* cells the mask is evaluated on: every tick of the channel's height at five
\* abscissae around the fins, paired with one of three probe cells
CellXs == {heat_sink_x - 1, heat_sink_x, heat_sink_x + length \div 2,
           heat_sink_x + length, heat_sink_x + length + 1}
CellYs == (-(Scale \div 2)) .. (Scale \div 2)
\* (x, y) = (-0.5, -0.25), (-0.5, 0.0), (-0.5, -0.1)
ProbeCells == {<<-(Scale \div 2), -(Scale \div 4)>>, <<-(Scale \div 2), 0>>,
               <<-(Scale \div 2), -(Scale \div 10)>>}

\* the plotter at rest, with no mappings handed to it
CallAtRest ==
    /\ invar = <<>> /\ true_outvar = <<>> /\ pred_outvar = <<>>
    /\ pc = "idle" /\ calls = 0
    /\ x = <<>> /\ y = <<>> /\ extent = <<>>
    /\ true_f = <<>> /\ pred_f = <<>> /\ raw = <<>>
    /\ grid_mask = <<>> /\ diff = <<>>
    /\ figures = 0 /\ panels = <<>> /\ result = <<>> /\ error = ""
    /\ snap = <<>> /\ prev = <<>>

InitGeometry ==
    /\ \E cx \in CellXs, cy \in CellYs, pr \in ProbeCells :
          /\ xi = <<cx, pr[1]>>
          /\ yi = <<cy, pr[2]>>
    /\ fins \in 0 .. MaxFins
    /\ mask = <<>> /\ maskN = <<>> /\ maskN1 = <<>>
    /\ rpc = "start"
    /\ heat_sink_origin = run_origin
    /\ heat_sink = <<>>
    /\ i = 0
    /\ CallAtRest

\* one call heat_sink_mask(xi, yi), beside the same loop for fins and fins + 1
EvalMask ==
    /\ mask = <<>>
    /\ mask' = heat_sink_mask(xi, yi)
    /\ maskN' = MaskFins(xi, yi, fins)
    /\ maskN1' = MaskFins(xi, yi, fins + 1)
    /\ UNCHANGED <<xi, yi, fins, rpc, heat_sink_origin, heat_sink, i>>
    /\ UNCHANGED callVars

\* lines 206-212: the first rectangle, at heat_sink_origin
RunFirstFin ==
    /\ rpc = "start"
    /\ heat_sink' = <<Rectangle(heat_sink_origin)>>
    /\ i' = 1
    /\ rpc' = "loop"
    /\ UNCHANGED <<xi, yi, fins, mask, maskN, maskN1, heat_sink_origin>>
    /\ UNCHANGED callVars

\* lines 213-222: one iteration of "for i in range(1, nr_heat_sink_fins)"
RunAddFin ==
    /\ rpc = "loop"
    /\ i < nr_heat_sink_fins
    /\ heat_sink_origin' = <<heat_sink_origin[1], heat_sink_origin[2] + run_gap>>
    /\ heat_sink' = Append(heat_sink, Rectangle(heat_sink_origin'))
    /\ i' = i + 1
    /\ UNCHANGED <<xi, yi, fins, mask, maskN, maskN1, rpc>>
    /\ UNCHANGED callVars

\* line 223: the loop is over, geo = channel - heat_sink
RunSubtract ==
    /\ rpc = "loop"
    /\ i >= nr_heat_sink_fins
    /\ rpc' = "done"
    /\ UNCHANGED <<xi, yi, fins, mask, maskN, maskN1, heat_sink_origin, heat_sink, i>>
    /\ UNCHANGED callVars

NextGeometry == EvalMask \/ RunFirstFin \/ RunAddFin \/ RunSubtract

SpecGeometry == InitGeometry /\ [][NextGeometry]_vars

\* ------------------------------------------------------------- claims
\* C1: heat_sink_mask marks cell (xi, yi) true iff some fin j in [0, nr_fins)
\* has heat_sink_x <= xi <= heat_sink_x + length and
\* start_y + j*gap <= yi <= start_y + j*gap + thickness (closed rectangles,
\* OR over the fins), for every cell of the arrays.
C1_MaskIffInSomeFin ==
    mask # <<>> =>
        \A k \in DOMAIN xi :
            mask[k] <=>
                \E j \in 0 .. (nr_fins - 1) :
                    /\ heat_sink_x <= xi[k]
                    /\ xi[k] <= heat_sink_x + length
                    /\ heat_sink_y_start + j * gap <= yi[k]
                    /\ yi[k] <= heat_sink_y_start + j * gap + fin_thickness

\* a cell on the far (inclusive) edge of the last fin is evaluated and masked
C1_Witness ==
    /\ mask # <<>>
    /\ xi[1] = heat_sink_x + length
    /\ yi[1] = heat_sink_y_start + (nr_fins - 1) * gap + fin_thickness
    /\ mask[1]

\* C2 as written: (-0.5, -0.25) is masked true and (-0.5, 0.0) is masked false
C2_AsWritten ==
    mask # <<>> =>
        \A k \in DOMAIN xi :
            /\ (xi[k] = -(Scale \div 2) /\ yi[k] = -(Scale \div 4)) => mask[k]
            /\ (xi[k] = -(Scale \div 2) /\ yi[k] = 0) => ~mask[k]

\* C2 (amended): with the hard-coded fin parameters, (-0.5, -0.25) is masked
\* true, (-0.5, 0.0) is masked true as well (it lies in the second fin,
\* y in [-0.05, 0.05]), and (-0.5, -0.1), between the first two fins, is masked
\* false.
C2_ProbeCells ==
    mask # <<>> =>
        \A k \in DOMAIN xi :
            /\ (xi[k] = -(Scale \div 2) /\ yi[k] = -(Scale \div 4)) => mask[k]
            /\ (xi[k] = -(Scale \div 2) /\ yi[k] = 0) => mask[k]
            /\ (xi[k] = -(Scale \div 2) /\ yi[k] = -(Scale \div 10)) => ~mask[k]

\* the mask was computed for the cell (-0.5, 0.0)
C2_Witness ==
    /\ mask # <<>>
    /\ xi[2] = -(Scale \div 2) /\ yi[2] = 0
    /\ mask[2]

\* C6: every cell masked with nr_fins = n is masked with nr_fins = n + 1, the
\* other parameters fixed.
C6_MonotonicInFins ==
    maskN # <<>> => \A k \in DOMAIN xi : maskN[k] => maskN1[k]

\* a cell of the first fin, still masked when a third fin is added
C6_Witness ==
    /\ maskN # <<>> /\ fins = 2
    /\ maskN[1] /\ maskN1[1]
    /\ yi[1] <= heat_sink_y_start + fin_thickness

\* C10: when run() has built heat_sink, its rectangles are the rectangles
\* heat_sink_mask excludes: the same count and, fin by fin, the same corners.
C10_SameGeometry ==
    rpc = "done" =>
        /\ Len(heat_sink) = nr_fins
        /\ \A j \in 0 .. (nr_fins - 1) : heat_sink[j + 1] = FinRect(j)
        /\ {heat_sink[k] : k \in DOMAIN heat_sink}
              = {FinRect(j) : j \in 0 .. (nr_fins - 1)}

\* run() is done with three fins and the mask was evaluated on a masked cell
C10_Witness ==
    /\ rpc = "done" /\ Len(heat_sink) = 3
    /\ mask # <<>> /\ mask[1]


\* ========================================================== plotter spec
\* field values are multiples of ValUnit, so that the barycentric combination
\* at every grid node is an integer
ValUnit == GridRes - 1

\* the three samples a field is built from
BaseRows ==
    { <<Fin(0), Fin(ValUnit), Fin(2 * ValUnit)>>,
      <<Fin(2 * ValUnit), Fin(2 * ValUnit), Fin(0)>>,
      <<NaN, Fin(ValUnit), Fin(0)>>,
      <<Inf(1), Fin(0), Fin(ValUnit)>>,
      <<Inf(-1), Fin(3 * ValUnit), Inf(1)>>,
      <<Inf(-1), Fin(0), Fin(0)>> }

\* an N x 1 array: the base samples, raised by n units where finite
InputField(base, n) ==
    [k \in DOMAIN base |->
        <<IF IsFin(base[k]) THEN Fin(base[k][2] + n * ValUnit) ELSE base[k]>>]

\* a mapping with the five output fields, each quantity with its own offset
OutputMapping(base) ==
    [q \in OutKeys |-> InputField(base, CHOOSE n \in 1 .. 5 : Quantities[n] = q)]

\* scattered sample coordinates, in ticks: two triangles on corners of their
\* bounding box (around and across the fins) and three collinear points
Layouts ==
    { [px |-> <<-((3 * Scale) \div 2), Scale \div 2, -((3 * Scale) \div 2)>>,
       py |-> <<-((3 * Scale) \div 10), -((3 * Scale) \div 10), (3 * Scale) \div 10>>],
      [px |-> <<Scale, -Scale, Scale>>,
       py |-> <<Scale \div 2, Scale \div 2, -(Scale \div 2)>>],
      [px |-> <<-Scale, 0, Scale>>,
       py |-> <<0, 0, 0>>] }

CoordinateMapping(l) ==
    [k \in InKeys |->
        IF k = "x" THEN [n \in 1 .. 3 |-> <<l.px[n]>>] ELSE [n \in 1 .. 3 |-> <<l.py[n]>>]]

\* the key a caller may have left out: none, or one key of one mapping
Omissions ==
    {<<"none", "">>} \cup ({"invar"} \X InKeys)
        \cup ({"true_outvar", "pred_outvar"} \X OutKeys)

Without(m, name, om) ==
    IF om[1] = name THEN [k \in DOMAIN m \ {om[2]} |-> m[k]] ELSE m

GeometryAtRest ==
    /\ xi = <<>> /\ yi = <<>> /\ fins = 0
    /\ mask = <<>> /\ maskN = <<>> /\ maskN1 = <<>>
    /\ rpc = "start" /\ heat_sink_origin = run_origin /\ heat_sink = <<>> /\ i = 0

InitCall ==
    /\ GeometryAtRest
    /\ \E l \in Layouts, bt \in BaseRows, bp \in BaseRows, om \in Omissions :
          /\ invar = Without(CoordinateMapping(l), "invar", om)
          /\ true_outvar = Without(OutputMapping(bt), "true_outvar", om)
          /\ pred_outvar = Without(OutputMapping(bp), "pred_outvar", om)
    /\ pc = "idle" /\ calls = 0
    /\ x = <<>> /\ y = <<>> /\ extent = <<>>
    /\ true_f = <<>> /\ pred_f = <<>> /\ raw = <<>>
    /\ grid_mask = <<>> /\ diff = <<>>
    /\ figures = 0 /\ panels = <<>> /\ result = <<>> /\ error = ""
    /\ snap = <<>> /\ prev = <<>>

\* the validator calls plotter(invar, true_outvar, pred_outvar) with the arrays
\* it holds; the locals of an earlier call are gone
Invoke ==
    /\ pc \in {"idle", "returned", "raised"}
    /\ calls < MaxCalls
    /\ calls' = calls + 1
    /\ pc' = "called"
    /\ snap' = [invar |-> invar, true_outvar |-> true_outvar, pred_outvar |-> pred_outvar]
    /\ prev' = IF pc = "returned"
               THEN [mask |-> grid_mask, true_f |-> true_f, pred_f |-> pred_f]
               ELSE prev
    /\ x' = <<>> /\ y' = <<>> /\ extent' = <<>>
    /\ true_f' = <<>> /\ pred_f' = <<>> /\ raw' = <<>>
    /\ grid_mask' = <<>> /\ diff' = <<>>
    /\ panels' = <<>> /\ result' = <<>> /\ error' = ""
    /\ UNCHANGED <<invar, true_outvar, pred_outvar, figures>>
    /\ UNCHANGED geoVars

\* lines 57-74: a lookup of an absent key raises KeyError
ExtractRaise ==
    /\ pc = "called"
    /\ MissingKeys # {}
    /\ pc' = "raised"
    /\ error' = "KeyError"
    /\ UNCHANGED <<invar, true_outvar, pred_outvar, calls, x, y, extent, true_f,
                   pred_f, raw, grid_mask, diff, figures, panels, result, snap, prev>>
    /\ UNCHANGED geoVars

\* lines 57-74: the coordinates, the extent and the ten fields
Extract ==
    /\ pc = "called"
    /\ MissingKeys = {}
    /\ x' = Column0(invar["x"])
    /\ y' = Column0(invar["y"])
    /\ extent' = <<MinOf(Range(x')), MaxOf(Range(x')), MinOf(Range(y')), MaxOf(Range(y'))>>
    /\ true_outvar' = ExtractTrue(true_outvar).store
    /\ true_f' = ExtractTrue(true_outvar).vals
    /\ pred_outvar' = ExtractPred(pred_outvar).store
    /\ pred_f' = ExtractPred(pred_outvar).vals
    /\ pc' = "extracted"
    /\ UNCHANGED <<invar, calls, raw, grid_mask, diff, figures, panels, result,
                   error, snap, prev>>
    /\ UNCHANGED geoVars

\* lines 77-82 when the points have no triangulation: griddata raises
InterpolateRaise ==
    /\ pc = "extracted"
    /\ Collinear(x, y)
    /\ pc' = "raised"
    /\ error' = "QhullError"
    /\ UNCHANGED <<invar, true_outvar, pred_outvar, calls, x, y, extent, true_f,
                   pred_f, raw, grid_mask, diff, figures, panels, result, snap, prev>>
    /\ UNCHANGED geoVars

\* lines 77-82: interpolate_output on the ten fields, unpacked in order
Interpolate ==
    /\ pc = "extracted"
    /\ ~Collinear(x, y)
    /\ grid_mask' = heat_sink_mask(meshgrid_xi(extent), meshgrid_yi(extent))
    /\ raw' = Interpolated(x, y, ValuesList(true_f, pred_f), extent)
    /\ LET out == interpolate_output(x, y, ValuesList(true_f, pred_f), extent) IN
          /\ true_f' = UnpackTrue(out)
          /\ pred_f' = UnpackPred(out)
    /\ pc' = "interpolated"
    /\ UNCHANGED <<invar, true_outvar, pred_outvar, calls, x, y, extent, diff,
                   figures, panels, result, error, snap, prev>>
    /\ UNCHANGED geoVars

\* lines 85-89
Diff ==
    /\ pc = "interpolated"
    /\ diff' = Diffs(true_f, pred_f)
    /\ pc' = "diffed"
    /\ UNCHANGED <<invar, true_outvar, pred_outvar, calls, x, y, extent, true_f,
                   pred_f, raw, grid_mask, figures, panels, result, error, snap, prev>>
    /\ UNCHANGED geoVars

\* lines 92-136: plt.subplots makes the figure, the loop fills its 15 axes
Plot ==
    /\ pc = "diffed"
    /\ figures' = figures + 1
    /\ panels' = Axes(true_f, pred_f, diff)
    /\ pc' = "plotted"
    /\ UNCHANGED <<invar, true_outvar, pred_outvar, calls, x, y, extent, true_f,
                   pred_f, raw, grid_mask, diff, result, error, snap, prev>>
    /\ UNCHANGED geoVars

\* line 138
Return ==
    /\ pc = "plotted"
    /\ result' = << <<figures, "custom_plot">> >>
    /\ pc' = "returned"
    /\ UNCHANGED <<invar, true_outvar, pred_outvar, calls, x, y, extent, true_f,
                   pred_f, raw, grid_mask, diff, figures, panels, error, snap, prev>>
    /\ UNCHANGED geoVars

NextCall ==
    Invoke \/ ExtractRaise \/ Extract \/ InterpolateRaise \/ Interpolate
        \/ Diff \/ Plot \/ Return

SpecCall == InitCall /\ [][NextCall]_vars


\* ------------------------------------------------------------- claims
\* the call has got as far as a rendered figure
Rendered == pc \in {"plotted", "returned"}

C4_PanelLayout ==
    Rendered =>
        /\ Len(panels) = 15
        /\ \A n \in 1 .. 5 :
              LET q == Quantities[n] IN
              /\ panels[3 * n - 2].title = "Modulus: " \o q
              /\ panels[3 * n - 2].img = Transpose(pred_f[q])
              /\ panels[3 * n - 2].lim = colorbar_limits[q]
              /\ panels[3 * n - 1].title = "OpenFOAM: " \o q
              /\ panels[3 * n - 1].img = Transpose(true_f[q])
              /\ panels[3 * n - 1].lim = colorbar_limits[q]
              /\ panels[3 * n].title = "Difference: " \o q
              /\ panels[3 * n].img = Transpose(diff[q])
              /\ panels[3 * n].lim = <<>>

\* a figure whose predicted and reference fields differ
C4_Witness ==
    /\ Rendered
    /\ \A n \in 1 .. 5 : pred_f[Quantities[n]] # true_f[Quantities[n]]
    /\ pred_f["p"] # pred_f["u"]

\* interpolate_output has returned
HasInterpolated == pc \in {"interpolated", "diffed", "plotted", "returned"}

\* the ten fields interpolate_output returned, in the order of its result
Returned10 == ValuesList(true_f, pred_f)

\* C5 as written: masked cells hold nan, and every other cell holds whatever the
\* interpolation gave it
C5_AsWritten ==
    HasInterpolated =>
        \A n \in 1 .. 10 : \A c \in GridIdx :
            IF grid_mask[c] THEN IsNaN(Returned10[n][c])
            ELSE Returned10[n][c] = raw[n][c]

\* C5 (amended): after interpolate_output every returned field, predicted and
\* reference alike, is nan at every cell where the one mask derived from the
\* grid is true; where the mask is false the field keeps the value the
\* interpolation gave it, except that an infinite value has become the largest
\* finite float of its sign.
C5_MaskedAndKept ==
    HasInterpolated =>
        /\ grid_mask = heat_sink_mask(meshgrid_xi(extent), meshgrid_yi(extent))
        /\ \A n \in 1 .. 10 : \A c \in GridIdx :
              IF grid_mask[c] THEN IsNaN(Returned10[n][c])
              ELSE IF IsInf(raw[n][c]) THEN Returned10[n][c] = FMax(raw[n][c][2])
              ELSE Returned10[n][c] = raw[n][c]

\* a masked cell where the interpolation had a finite value in a predicted
\* field, beside an unmasked cell that kept its finite value
C5_Witness ==
    /\ HasInterpolated
    /\ \E c \in GridIdx : grid_mask[c] /\ IsFin(raw[10][c]) /\ IsNaN(pred_f["c"][c])
    /\ \E c \in GridIdx : ~grid_mask[c] /\ IsFin(raw[10][c]) /\ pred_f["c"][c] = raw[10][c]

\* a key the call needs is absent from a mapping
SomeKeyAbsent ==
    \/ ~(InKeys \subseteq DOMAIN invar)
    \/ ~(OutKeys \subseteq DOMAIN true_outvar)
    \/ ~(OutKeys \subseteq DOMAIN pred_outvar)

\* C7: with a required key absent, the call ends in an error raised before any
\* interpolation result or figure exists, and nothing is returned.
C7_MissingKeyRaisesFirst ==
    (SomeKeyAbsent /\ pc # "idle") =>
        /\ pc \in {"called", "raised"}
        /\ pc = "raised" => error = "KeyError"
        /\ raw = <<>> /\ true_f = <<>> /\ pred_f = <<>>
        /\ figures = 0 /\ panels = <<>>
        /\ result = <<>>

\* a call that raised because pred_outvar has no "c"
C7_Witness ==
    /\ pc = "raised" /\ error = "KeyError"
    /\ "c" \notin DOMAIN pred_outvar
    /\ OutKeys \subseteq DOMAIN true_outvar

\* C8: a second invocation with the same inputs yields the same mask and the
\* same interpolated fields, undefined cells included.
C8_Idempotent ==
    (HasInterpolated /\ prev # <<>>) =>
        /\ grid_mask = prev.mask
        /\ true_f = prev.true_f
        /\ pred_f = prev.pred_f

\* the second call has interpolated fields with defined and undefined cells
C8_Witness ==
    /\ pc = "returned" /\ calls = 2 /\ prev # <<>>
    /\ \E c \in GridIdx : IsFin(pred_f["c"][c]) /\ pred_f["c"][c] # Fin(0)
    /\ \E c \in GridIdx : IsNaN(pred_f["c"][c])

\* C9: at every point of a call, and so when __call__ has returned, every
\* array of the three input mappings holds what it held when the call began.
C9_InputsNotMutated ==
    pc # "idle" =>
        /\ invar = snap.invar
        /\ true_outvar = snap.true_outvar
        /\ pred_outvar = snap.pred_outvar

\* a returned call whose reference temperature was scaled to a different value
C9_Witness ==
    /\ pc = "returned"
    /\ \E k \in 1 .. 3 :
          /\ IsFin(true_outvar["c"][k][1])
          /\ true_outvar["c"][k][1] # Fin(0)
          /\ true_outvar["c"][k][1] = snap.true_outvar["c"][k][1]

====
